---- MODULE Spec2Model ----
(***************************************************************************)
(* Seam carving (wba6/seam-curving): the Image pixel grid of Image.cpp,    *)
(* the SeamCarver engine of SeamCarver.cpp and the stand-alone program of  *)
(* main.cpp.  Vectors are functions over 0..n-1, as the code indexes them. *)
(***************************************************************************)
EXTENDS Integers, Sequences, FiniteSets, TLC

VARIABLES
    pc,         \* position of the running program
    image_,     \* SeamCarver::image_, an Image: [width_, height_, isColor_,
                \* gray_ ([row][col] -> int), color_ ([row][col] -> array<int,3>)]
    E,          \* the energy map in hand (local E of removeVerticalSeams)
    seam,       \* the seam in hand (local seam of removeVerticalSeams)
    mseam,      \* the seam main.cpp's findMinVerticalSeam returned
    vcount,     \* removeVerticalSeams: parameter count
    vk,         \* removeVerticalSeams: loop counter k
    hcount,     \* removeHorizontalSeams: parameter count
    hk,         \* removeHorizontalSeams: loop counter k
    ret,        \* where removeVerticalSeams returns to
    call,       \* history: the outermost call, [op, n]
    img0,       \* history: the image when the outermost call was entered
    pre,        \* history: the image before the latest step
    trace,      \* history: the operations performed since the call was entered
    valid,      \* history: every call so far kept its count below the dimension
    numV,       \* main.cpp: the number of vertical seams asked for
    numH,       \* main.cpp: the number of horizontal seams asked for
    i_,         \* main.cpp: loop counter i of carve
    pgm_        \* a PGMImage of main.cpp carved beside the Image of image_

vars == <<pc, image_, E, seam, mseam, vcount, vk, hcount, hk, ret,
          call, img0, pre, trace, valid, numV, numH, i_, pgm_>>

----------------------------------------------------------------------------
(* Bounds of the model *)

\* energy maps given to the seam search hold at most this many cells
MaxEnergyCells == 9
\* and energies 0..MaxE
MaxE == 1

\* std::numeric_limits<int>::max(), the fill value of the cost matrix
INT_MAX == 2147483647

----------------------------------------------------------------------------
(* std::vector as a function over 0..n-1 *)

Size(v) == Cardinality(DOMAIN v)

Vec(n, x) == [i \in 0..(n - 1) |-> x]

NoSeam == Vec(0, 0)

Abs(x) == IF x < 0 THEN -x ELSE x

Min(a, b) == IF b < a THEN b ELSE a

Max(a, b) == IF a < b THEN b ELSE a

----------------------------------------------------------------------------
(* SeamCarver::findVerticalSeam, SeamCarver.cpp *)

\* mutant of AccumulateRow: the neighbour to the right is left out
AccumulateRowNoRight(energy, Mprev, i, w) ==
    [j \in 0..(w - 1) |->
        LET b0 == Mprev[j]
            b1 == IF j > 0 THEN Min(b0, Mprev[j - 1]) ELSE b0
        IN  energy[i][j] + b1]

\* the accumulation loop body for row i: M[i][j] = energy[i][j] + best
AccumulateRow(energy, Mprev, i, w) ==
    [j \in 0..(w - 1) |->
        LET b0 == Mprev[j]
            b1 == IF j > 0 THEN Min(b0, Mprev[j - 1]) ELSE b0
            b2 == IF j < w - 1 THEN Min(b1, Mprev[j + 1]) ELSE b1
        IN  energy[i][j] + b2]

RECURSIVE AccumulateFrom(_, _, _, _, _)
AccumulateFrom(energy, M, i, h, w) ==
    IF i >= h THEN M
    ELSE AccumulateFrom(energy,
                        [M EXCEPT ![i] = AccumulateRow(energy, M[i - 1], i, w)],
                        i + 1, h, w)

\* the cost matrix M after both loops
CostMatrix(energy) ==
    LET h  == Size(energy)
        w  == Size(energy[0])
        M0 == Vec(h, Vec(w, INT_MAX))
        M1 == [M0 EXCEPT ![0] = [j \in 0..(w - 1) |-> energy[0][j]]]
    IN  AccumulateFrom(energy, M1, 1, h, w)

\* mutant of ScanLess: an equal value also replaces the best
RECURSIVE ScanLessOrEqual(_, _, _, _, _)
ScanLessOrEqual(row, k, end, best, val) ==
    IF k > end THEN best
    ELSE IF row[k] <= val THEN ScanLessOrEqual(row, k + 1, end, k, row[k])
    ELSE ScanLessOrEqual(row, k + 1, end, best, val)

\* mutant of ScanLess: the comparison is turned round
RECURSIVE ScanGreater(_, _, _, _, _)
ScanGreater(row, k, end, best, val) ==
    IF k > end THEN best
    ELSE IF row[k] > val THEN ScanGreater(row, k + 1, end, k, row[k])
    ELSE ScanGreater(row, k + 1, end, best, val)

\* for (k = from; k <= end; ++k) if (row[k] < val) { val = row[k]; best = k; }
RECURSIVE ScanLess(_, _, _, _, _)
ScanLess(row, k, end, best, val) ==
    IF k > end THEN best
    ELSE IF row[k] < val THEN ScanLess(row, k + 1, end, k, row[k])
    ELSE ScanLess(row, k + 1, end, best, val)

\* mutant of BacktrackChoice: the scan covers the whole row, not prev-1..prev+1
BacktrackChoiceWholeRow(Mrow, prev, w) ==
    ScanLess(Mrow, 1, w - 1, 0, Mrow[0])

\* one step of the backtracking loop: the column chosen in row i-1
BacktrackChoice(Mrow, prev, w) ==
    LET start == Max(0, prev - 1)
        end   == Min(w - 1, prev + 1)
    IN  ScanLess(Mrow, start + 1, end, start, Mrow[start])

RECURSIVE BacktrackFrom(_, _, _, _)
BacktrackFrom(M, s, i, w) ==
    IF i <= 0 THEN s
    ELSE BacktrackFrom(M,
                       [s EXCEPT ![i - 1] = BacktrackChoice(M[i - 1], s[i], w)],
                       i - 1, w)

\* With w = 0 no loop over the columns runs: minj stays 0, and every
\* backtracking step leaves best = start = 0.
findVerticalSeam(energy) ==
    LET h    == Size(energy)
        w    == Size(energy[0])
        M    == CostMatrix(energy)
        minj == ScanLess(M[h - 1], 1, w - 1, 0, M[h - 1][0])
        s0   == [Vec(h, 0) EXCEPT ![h - 1] = minj]
    IN  IF w = 0 THEN Vec(h, 0) ELSE BacktrackFrom(M, s0, h - 1, w)

----------------------------------------------------------------------------
(* SeamCarver::findMinVerticalSeam, main.cpp *)

AccumulateRowMain(energy, Mprev, i, w) ==
    [j \in 0..(w - 1) |->
        LET b0 == Mprev[j]
            b1 == IF j > 0 THEN Min(b0, Mprev[j - 1]) ELSE b0
            b2 == IF j + 1 < w THEN Min(b1, Mprev[j + 1]) ELSE b1
        IN  energy[i][j] + b2]

RECURSIVE AccumulateFromMain(_, _, _, _, _)
AccumulateFromMain(energy, M, i, h, w) ==
    IF i >= h THEN M
    ELSE AccumulateFromMain(energy,
                            [M EXCEPT ![i] = AccumulateRowMain(energy, M[i - 1], i, w)],
                            i + 1, h, w)

CostMatrixMain(energy) ==
    LET h  == Size(energy)
        w  == Size(energy[0])
        M0 == Vec(h, Vec(w, 0))
        M1 == [M0 EXCEPT ![0] = [j \in 0..(w - 1) |-> energy[0][j]]]
    IN  AccumulateFromMain(energy, M1, 1, h, w)

\* std::min_element: the first position holding the smallest element
MinElement(row) ==
    CHOOSE j \in DOMAIN row :
        /\ \A q \in DOMAIN row : row[j] <= row[q]
        /\ \A q \in DOMAIN row : q < j => row[j] < row[q]

\* mutant of OffsetChoice: the column straight above wins a tie with the left
OffsetChoiceNearestFirst(Mrow, prev, w) ==
    LET best0 == Mrow[prev]
        left  == prev > 0 /\ Mrow[prev - 1] < best0
        best1 == IF left THEN Mrow[prev - 1] ELSE best0
        off1  == IF left THEN -1 ELSE 0
        right == prev + 1 < w /\ Mrow[prev + 1] < best1
        off2  == IF right THEN 1 ELSE off1
    IN  prev + off2

\* one step of the backtracking loop: prev + offset
OffsetChoice(Mrow, prev, w) ==
    LET best0 == Mrow[prev]
        left  == prev > 0 /\ Mrow[prev - 1] <= best0
        best1 == IF left THEN Mrow[prev - 1] ELSE best0
        off1  == IF left THEN -1 ELSE 0
        right == prev + 1 < w /\ Mrow[prev + 1] < best1
        off2  == IF right THEN 1 ELSE off1
    IN  prev + off2

RECURSIVE BacktrackFromMain(_, _, _, _)
BacktrackFromMain(M, s, i, w) ==
    IF i < 0 THEN s
    ELSE BacktrackFromMain(M,
                           [s EXCEPT ![i] = OffsetChoice(M[i], s[i + 1], w)],
                           i - 1, w)

\* With w = 0 min_element returns end() = begin(), position 0, and every
\* backtracking step leaves offset = 0.
findMinVerticalSeam(energy) ==
    LET h  == Size(energy)
        w  == Size(energy[0])
        M  == CostMatrixMain(energy)
        s0 == [Vec(h, 0) EXCEPT ![h - 1] = MinElement(M[h - 1])]
    IN  IF w = 0 THEN Vec(h, 0) ELSE BacktrackFromMain(M, s0, h - 2, w)

\* SeamCarver::findMinHorizontalSeam, main.cpp
findMinHorizontalSeam(energy) ==
    LET h     == Size(energy)
        w     == Size(energy[0])
        trans == [j \in 0..(w - 1) |-> [i \in 0..(h - 1) |-> energy[i][j]]]
    IN  findMinVerticalSeam(trans)

----------------------------------------------------------------------------
(* Image, Image.cpp *)

\* energies and pixels of the images: at most MaxCells pixels, values 0..MaxVal
MaxCells == 6
MaxVal == 1

\* C++ int division truncates toward zero
TruncDiv(a, b) == IF a >= 0 THEN a \div b ELSE -((-a) \div b)

\* std::array<int,3>
Pixel3(a, b, c) == (0 :> a) @@ (1 :> b) @@ (2 :> c)

\* the rows of the image that holds its pixels
Rows(img) == IF img.isColor_ THEN img.color_ ELSE img.gray_

\* Image::Image: a P2 file of h rows of w values gives a gray image,
\* a P3 file a colour image; the other store stays empty
LoadGray(h, w, px) ==
    [width_ |-> w, height_ |-> h, isColor_ |-> FALSE,
     gray_ |-> px, color_ |-> Vec(0, 0)]

LoadColor(h, w, px) ==
    [width_ |-> w, height_ |-> h, isColor_ |-> TRUE,
     gray_ |-> Vec(0, 0), color_ |-> px]

\* mutant of grayValue: the average is rounded, not truncated
grayValueRounded(img, r, c) ==
    IF ~img.isColor_ THEN img.gray_[r][c]
    ELSE LET p == img.color_[r][c]
         IN  TruncDiv(p[0] + p[1] + p[2] + 1, 3)

\* Image::grayValue
grayValue(img, r, c) ==
    IF ~img.isColor_ THEN img.gray_[r][c]
    ELSE LET p == img.color_[r][c]
         IN  TruncDiv(p[0] + p[1] + p[2], 3)

\* mutant of Erase: the last element goes, whatever the position
EraseLast(row, pos) ==
    [j \in 0..(Size(row) - 2) |-> row[j]]

\* vector::erase(begin() + pos)
Erase(row, pos) ==
    [j \in 0..(Size(row) - 2) |-> IF j < pos THEN row[j] ELSE row[j + 1]]

\* erase(begin() + pos) is defined only for a position of an element
CanEraseAll(img, s) ==
    \A i \in 0..(img.height_ - 1) :
        /\ i \in DOMAIN s
        /\ i \in DOMAIN Rows(img)
        /\ s[i] \in DOMAIN Rows(img)[i]

\* mutant of EraseRows: the last row keeps its pixel
EraseRowsButLast(rows, h, s) ==
    [i \in DOMAIN rows |-> IF i < h - 1 THEN Erase(rows[i], s[i]) ELSE rows[i]]

\* the loop of removeSeam over the rows
EraseRows(rows, h, s) ==
    [i \in DOMAIN rows |-> IF i < h THEN Erase(rows[i], s[i]) ELSE rows[i]]

\* mutant of removeSeam: --width_ is forgotten
removeSeamKeepWidth(img, s) ==
    IF ~img.isColor_
    THEN [img EXCEPT !.gray_ = EraseRows(img.gray_, img.height_, s)]
    ELSE [img EXCEPT !.color_ = EraseRows(img.color_, img.height_, s)]

\* Image::removeSeam
removeSeam(img, s) ==
    IF ~img.isColor_
    THEN [img EXCEPT !.gray_ = EraseRows(img.gray_, img.height_, s),
                     !.width_ = img.width_ - 1]
    ELSE [img EXCEPT !.color_ = EraseRows(img.color_, img.height_, s),
                     !.width_ = img.width_ - 1]

\* mutant of TransposeRows: the rows are read bottom-up (a rotation)
TransposeRowsRotating(rows, h, w) ==
    [j \in 0..(w - 1) |-> [i \in 0..(h - 1) |-> rows[h - 1 - i][j]]]

\* tmp[j][i] = rows[i][j]: tmp has w rows of h pixels
TransposeRows(rows, h, w) ==
    [j \in 0..(w - 1) |-> [i \in 0..(h - 1) |-> rows[i][j]]]

\* Image::transpose
transpose(img) ==
    IF ~img.isColor_
    THEN [img EXCEPT !.gray_ = TransposeRows(img.gray_, img.height_, img.width_),
                     !.width_ = img.height_,
                     !.height_ = img.width_]
    ELSE [img EXCEPT !.color_ = TransposeRows(img.color_, img.height_, img.width_),
                     !.width_ = img.height_,
                     !.height_ = img.width_]

\* the pixel storage has h rows of w pixels
HasShape(img, h, w) ==
    /\ DOMAIN Rows(img) = 0..(h - 1)
    /\ \A i \in 0..(h - 1) : DOMAIN Rows(img)[i] = 0..(w - 1)

----------------
(* SeamCarver::computeEnergy, SeamCarver.cpp *)

computeEnergy(img) ==
    LET h == img.height_
        w == img.width_
    IN  [i \in 0..(h - 1) |-> [j \in 0..(w - 1) |->
            LET v  == grayValue(img, i, j)
                s1 == IF i > 0 THEN Abs(v - grayValue(img, i - 1, j)) ELSE 0
                s2 == IF i < h - 1 THEN s1 + Abs(v - grayValue(img, i + 1, j)) ELSE s1
                s3 == IF j > 0 THEN s2 + Abs(v - grayValue(img, i, j - 1)) ELSE s2
                s4 == IF j < w - 1 THEN s3 + Abs(v - grayValue(img, i, j + 1)) ELSE s3
            IN  s4]]

----------------------------------------------------------------------------
(* The images a session starts from *)

Shapes ==
    {hw \in (1..MaxCells) \X (1..MaxCells) : hw[1] * hw[2] <= MaxCells}

GrayVals == 0..MaxVal

\* colour pixels whose channels differ and whose sums are no multiples of 3
ColorVals == {Pixel3(v, v + 1, 2 * v) : v \in 0..MaxVal}

\* the grid of the end-to-end scenario: [[1,2,1],[2,9,2],[1,2,1]]
ScenarioGrid ==
    LET edge == (0 :> 1) @@ (1 :> 2) @@ (2 :> 1)
        mid  == (0 :> 2) @@ (1 :> 9) @@ (2 :> 2)
    IN  (0 :> edge) @@ (1 :> mid) @@ (2 :> edge)

\* the same grid in colour: value v as the pixel (v, v+1, 2v)
ScenarioColorGrid ==
    [r \in 0..2 |-> [c \in 0..2 |->
        Pixel3(ScenarioGrid[r][c], ScenarioGrid[r][c] + 1, 2 * ScenarioGrid[r][c])]]

Images ==
    UNION {
        {LoadGray(hw[1], hw[2], px) :
            px \in [0..(hw[1] - 1) -> [0..(hw[2] - 1) -> GrayVals]]}
        \cup
        {LoadColor(hw[1], hw[2], px) :
            px \in [0..(hw[1] - 1) -> [0..(hw[2] - 1) -> ColorVals]]}
        : hw \in Shapes}
    \cup {LoadGray(3, 3, ScenarioGrid), LoadColor(3, 3, ScenarioColorGrid)}

----------------------------------------------------------------------------
(* The seam search on its own: every energy map within the bounds is an   *)
(* input, and each of the two searches is applied to it.                  *)

EnergyShapes ==
    {hw \in (1..MaxEnergyCells) \X (1..MaxEnergyCells) :
        hw[1] * hw[2] <= MaxEnergyCells}

EnergyMaps ==
    UNION {[0..(hw[1] - 1) -> [0..(hw[2] - 1) -> 0..MaxE]] : hw \in EnergyShapes}

\* an Image object that was never loaded
NoImage ==
    [width_ |-> 0, height_ |-> 0, isColor_ |-> FALSE,
     gray_ |-> Vec(0, 0), color_ |-> Vec(0, 0)]

\* a PGMImage that was never read: width_{0}, height_{0}, no pixels
NoPgm == [class |-> "pgm", width_ |-> 0, height_ |-> 0, pixels_ |-> Vec(0, 0)]

NoCall == [op |-> "none", n |-> 0]

SeamInit ==
    /\ pc = "search"
    /\ E \in EnergyMaps
    /\ seam = NoSeam
    /\ mseam = NoSeam
    /\ image_ = NoImage
    /\ vcount = 0 /\ vk = 0 /\ hcount = 0 /\ hk = 0 /\ ret = "idle"
    /\ call = NoCall /\ img0 = NoImage /\ pre = NoImage
    /\ trace = <<>> /\ valid = TRUE
    /\ numV = 0 /\ numH = 0 /\ i_ = 0
    /\ pgm_ = NoPgm

SearchVertical ==
    /\ pc = "search"
    /\ seam = NoSeam
    /\ seam' = findVerticalSeam(E)
    /\ UNCHANGED <<pc, image_, E, mseam, vcount, vk, hcount, hk, ret,
                   call, img0, pre, trace, valid, numV, numH, i_, pgm_>>

SearchMinVertical ==
    /\ pc = "search"
    /\ mseam = NoSeam
    /\ mseam' = findMinVerticalSeam(E)
    /\ UNCHANGED <<pc, image_, E, seam, vcount, vk, hcount, hk, ret,
                   call, img0, pre, trace, valid, numV, numH, i_, pgm_>>

SeamNext == SearchVertical \/ SearchMinVertical

SpecSeam == SeamInit /\ [][SeamNext]_vars

----------------------------------------------------------------------------
(* Seams as the specification defines them *)

\* every assignment of one in-range column per row, neighbours at most one apart
ValidSeams(h, w) ==
    {s \in [0..(h - 1) -> 0..(w - 1)] :
        \A i \in 0..(h - 2) : Abs(s[i] - s[i + 1]) <= 1}

RECURSIVE SumTo(_, _, _)
SumTo(energy, s, i) ==
    IF i < 0 THEN 0 ELSE energy[i][s[i]] + SumTo(energy, s, i - 1)

SeamEnergy(energy, s) == SumTo(energy, s, Size(energy) - 1)

IsMinimal(energy, s) ==
    \A t \in ValidSeams(Size(energy), Size(energy[0])) :
        SeamEnergy(energy, s) <= SeamEnergy(energy, t)

IsShaped(energy, s) ==
    /\ DOMAIN s = 0..(Size(energy) - 1)
    /\ \A i \in DOMAIN s : s[i] \in 0..(Size(energy[0]) - 1)
    /\ \A i \in 0..(Size(energy) - 2) : Abs(s[i] - s[i + 1]) <= 1

\* C1: the seam either search returns has total energy no greater than that
\* of any valid seam of the energy map.
C1_SeamIsMinimal ==
    pc = "search" =>
        /\ (seam # NoSeam => IsMinimal(E, seam))
        /\ (mseam # NoSeam => IsMinimal(E, mseam))

\* C1 witness: both searches have answered on a 3x3 map in which some valid
\* seam costs strictly more than the one returned
C1_Witness ==
    /\ pc = "search" /\ seam # NoSeam /\ mseam # NoSeam
    /\ Size(E) = 3 /\ Size(E[0]) = 3
    /\ SeamEnergy(E, seam) > 0
    /\ \E t \in ValidSeams(3, 3) : SeamEnergy(E, t) > SeamEnergy(E, seam)

\* C2: the seam either search returns has one entry per row of the energy
\* map, every entry a column of the map, and entries of neighbouring rows at
\* most one column apart.
C2_SeamIsShaped ==
    pc = "search" =>
        /\ (seam # NoSeam => IsShaped(E, seam))
        /\ (mseam # NoSeam => IsShaped(E, mseam))

\* C2 witness: on a 3x3 map both searches return the seam that runs from the
\* left edge in the top row to the right edge in the bottom row
C2_Witness ==
    /\ pc = "search"
    /\ Size(E) = 3 /\ Size(E[0]) = 3
    /\ seam = (0 :> 0) @@ (1 :> 1) @@ (2 :> 2)
    /\ mseam = seam

----------------------------------------------------------------------------
(* Ties *)

\* the columns the backtracking may move to from column prev
Candidates(prev, w) == {prev - 1, prev, prev + 1} \cap (0..(w - 1))

\* j is the lowest of the columns in cands that hold the least cost of cands
IsLowestMin(row, cands, j) ==
    /\ j \in cands
    /\ \A q \in cands : row[j] <= row[q]
    /\ \A q \in cands : q < j => row[j] < row[q]

\* the seam resolves every tie toward the lowest column
IsLeftmost(energy, s) ==
    LET h == Size(energy)
        w == Size(energy[0])
        M == CostMatrix(energy)
    IN  /\ IsLowestMin(M[h - 1], 0..(w - 1), s[h - 1])
        /\ \A i \in 0..(h - 2) :
               IsLowestMin(M[i], Candidates(s[i + 1], w), s[i])

\* C12: the seam findVerticalSeam returns starts, in the bottom row, at the
\* lowest column holding the minimum of the last row of the cost matrix, and
\* in every row above takes the lowest column, among the in-grid columns
\* prev-1, prev, prev+1, that holds the least cumulative cost of those.
C12_LeftmostTieBreak ==
    (pc = "search" /\ seam # NoSeam) => IsLeftmost(E, seam)

\* C12 witness: a seam whose bottom row had a tie with a column further
\* right, and which at some step moved left onto a cost equal to the one
\* straight above
C12_Witness ==
    /\ pc = "search" /\ seam # NoSeam
    /\ LET h == Size(E)
           w == Size(E[0])
           M == CostMatrix(E)
       IN  /\ \E j \in 0..(w - 1) :
                 j > seam[h - 1] /\ M[h - 1][j] = M[h - 1][seam[h - 1]]
           /\ \E i \in 0..(h - 2) :
                 /\ seam[i] = seam[i + 1] - 1
                 /\ M[i][seam[i]] = M[i][seam[i + 1]]

\* the two searches agree on the energy map: the same cost matrix, the same
\* start column, the same choice from every column of every row, the same seam
SearchesAgree(energy) ==
    LET h == Size(energy)
        w == Size(energy[0])
        M == CostMatrix(energy)
    IN  /\ CostMatrixMain(energy) = M
        /\ MinElement(M[h - 1]) = ScanLess(M[h - 1], 1, w - 1, 0, M[h - 1][0])
        /\ \A i \in 0..(h - 1) : \A prev \in 0..(w - 1) :
               OffsetChoice(M[i], prev, w) = BacktrackChoice(M[i], prev, w)
        /\ findMinVerticalSeam(energy) = findVerticalSeam(energy)

\* C13 (as the code has it): the two backtracking rules are written
\* differently but choose alike; for every energy map findVerticalSeam of
\* SeamCarver.cpp and findMinVerticalSeam of main.cpp return the same seam.
C13_VariantsAgree ==
    (pc = "search" /\ seam # NoSeam /\ mseam # NoSeam) =>
        (mseam = seam /\ SearchesAgree(E))

\* C13 witness: both searches have answered on a map where, at some step,
\* the costs to the left and to the right of the column below are equal and
\* lower than the cost straight above, and both moved left
C13_Witness ==
    /\ pc = "search" /\ seam # NoSeam /\ mseam # NoSeam
    /\ mseam = seam
    /\ LET M == CostMatrix(E)
       IN  \E i \in 0..(Size(E) - 2) :
               LET prev == seam[i + 1]
               IN  /\ prev >= 1 /\ prev + 1 < Size(E[0])
                   /\ M[i][prev - 1] = M[i][prev + 1]
                   /\ M[i][prev - 1] < M[i][prev]
                   /\ seam[i] = prev - 1

\* C13 as stated: among the energy maps the searches may be given there is
\* one on which the two return different seams.
C13_VariantsDiffer ==
    pc = "search" =>
        \E energy \in EnergyMaps :
            findVerticalSeam(energy) # findMinVerticalSeam(energy)

----------------
(* A carving session, SeamCarver.cpp: a SeamCarver is constructed on a     *)
(* loaded image and its removeVerticalSeams and removeHorizontalSeams are  *)
(* called, any number of times, with any counts up to MaxCount.            *)

MaxCount == 2

NoEnergy == Vec(0, 0)

\* Behaviour the language leaves undefined: the program either dies or runs
\* on with its memory corrupted.  Nothing is modelled past that point.
UBOutcomes == {"crashed", "corrupt"}

\* mutant of VLoopCond: one iteration too many
VLoopCondInclusive(k, count) == k <= count

\* mutant of HLoopCond: one iteration too many
HLoopCondInclusive(k, count) == k <= count

\* for (int k = 0; k < count; ++k) of removeVerticalSeams
VLoopCond(k, count) == k < count

\* for (int k = 0; k < count; ++k) of removeHorizontalSeams
HLoopCond(k, count) == k < count

SessionInit ==
    /\ pc = "idle"
    /\ image_ \in Images
    /\ E = NoEnergy
    /\ seam = NoSeam
    /\ mseam = NoSeam
    /\ vcount = 0 /\ vk = 0 /\ hcount = 0 /\ hk = 0 /\ ret = "idle"
    /\ call = NoCall /\ img0 = image_ /\ pre = image_
    /\ trace = <<>> /\ valid = TRUE
    /\ numV = 0 /\ numH = 0 /\ i_ = 0
    /\ pgm_ = NoPgm

\* removeVerticalSeams(n) is entered
CallRemoveVerticalSeams ==
    \E n \in 0..MaxCount :
        /\ pc = "idle"
        /\ pc' = "rv_loop"
        /\ vcount' = n /\ vk' = 0 /\ ret' = "idle"
        /\ call' = [op |-> "removeVerticalSeams", n |-> n]
        /\ img0' = image_ /\ pre' = image_ /\ trace' = <<>>
        /\ valid' = (valid /\ n < image_.width_)
        /\ UNCHANGED <<image_, E, seam, mseam, hcount, hk, numV, numH, i_, pgm_>>

\* auto E = computeEnergy();
StepComputeEnergy ==
    /\ pc = "rv_loop"
    /\ VLoopCond(vk, vcount)
    /\ E' = computeEnergy(image_)
    /\ pc' = "rv_find"
    /\ pre' = image_ /\ trace' = Append(trace, "computeEnergy")
    /\ UNCHANGED <<image_, seam, mseam, vcount, vk, hcount, hk, ret,
                   call, img0, valid, numV, numH, i_, pgm_>>

\* findVerticalSeam reads energy[0], and with more than one row M[i-1][0]
SearchDefined(energy) ==
    /\ Size(energy) >= 1
    /\ (Size(energy[0]) = 0 => Size(energy) = 1)

\* auto seam = findVerticalSeam(E);
StepFindSeam ==
    /\ pc = "rv_find"
    /\ \/ /\ SearchDefined(E)
          /\ seam' = findVerticalSeam(E)
          /\ pc' = "rv_remove"
       \/ /\ ~SearchDefined(E)
          /\ Size(E) >= 1
          \* the value read outside M[i-1] is never used
          /\ seam' = findVerticalSeam(E)
          /\ pc' = "rv_remove"
       \/ /\ ~SearchDefined(E)
          /\ seam' = seam
          /\ pc' \in UBOutcomes
    /\ pre' = image_ /\ trace' = Append(trace, "findVerticalSeam")
    /\ UNCHANGED <<image_, E, mseam, vcount, vk, hcount, hk, ret,
                   call, img0, valid, numV, numH, i_, pgm_>>

\* image_.removeSeam(seam); and the end of the loop body
StepRemoveSeam ==
    /\ pc = "rv_remove"
    /\ \/ /\ CanEraseAll(image_, seam)
          /\ image_' = removeSeam(image_, seam)
          /\ pc' = "rv_loop"
       \/ /\ ~CanEraseAll(image_, seam)
          /\ image_' = image_
          /\ pc' \in UBOutcomes
    /\ vk' = vk + 1
    /\ E' = NoEnergy /\ seam' = NoSeam
    /\ pre' = image_ /\ trace' = Append(trace, "removeSeam")
    /\ UNCHANGED <<mseam, vcount, hcount, hk, ret, call, img0, valid, numV, numH, i_, pgm_>>

\* the loop of removeVerticalSeams ends and the call returns
ReturnVertical ==
    /\ pc = "rv_loop"
    /\ ~VLoopCond(vk, vcount)
    /\ pc' = ret
    /\ UNCHANGED <<image_, E, seam, mseam, vcount, vk, hcount, hk, ret,
                   call, img0, pre, trace, valid, numV, numH, i_, pgm_>>

\* removeHorizontalSeams(m) is entered
CallRemoveHorizontalSeams ==
    \E m \in 0..MaxCount :
        /\ pc = "idle"
        /\ pc' = "rh_loop"
        /\ hcount' = m /\ hk' = 0
        /\ call' = [op |-> "removeHorizontalSeams", n |-> m]
        /\ img0' = image_ /\ pre' = image_ /\ trace' = <<>>
        /\ valid' = (valid /\ m < image_.height_)
        /\ UNCHANGED <<image_, E, seam, mseam, vcount, vk, ret, numV, numH, i_, pgm_>>

\* image_.transpose(); removeVerticalSeams(1) is entered
StepTranspose ==
    /\ pc = "rh_loop"
    /\ HLoopCond(hk, hcount)
    /\ image_' = transpose(image_)
    /\ pc' = "rv_loop"
    /\ vcount' = 1 /\ vk' = 0 /\ ret' = "rh_back"
    /\ pre' = image_ /\ trace' = Append(trace, "transpose")
    /\ UNCHANGED <<E, seam, mseam, hcount, hk, call, img0, valid, numV, numH, i_, pgm_>>

\* image_.transpose(); and the end of the loop body
StepTransposeBack ==
    /\ pc = "rh_back"
    /\ image_' = transpose(image_)
    /\ hk' = hk + 1
    /\ pc' = "rh_loop"
    /\ pre' = image_ /\ trace' = Append(trace, "transpose")
    /\ UNCHANGED <<E, seam, mseam, vcount, vk, hcount, ret, call, img0, valid, numV, numH, i_, pgm_>>

\* the loop of removeHorizontalSeams ends and the call returns
ReturnHorizontal ==
    /\ pc = "rh_loop"
    /\ ~HLoopCond(hk, hcount)
    /\ pc' = "idle"
    /\ UNCHANGED <<image_, E, seam, mseam, vcount, vk, hcount, hk, ret,
                   call, img0, pre, trace, valid, numV, numH, i_, pgm_>>

Next ==
    \/ CallRemoveVerticalSeams
    \/ StepComputeEnergy
    \/ StepFindSeam
    \/ StepRemoveSeam
    \/ ReturnVertical
    \/ CallRemoveHorizontalSeams
    \/ StepTranspose
    \/ StepTransposeBack
    \/ ReturnHorizontal

Spec == SessionInit /\ [][Next]_vars

----------------------------------------------------------------------------
(* Energy as the specification defines it *)

\* the truncating average of three non-negative channel values
AvgTrunc(p) ==
    LET sum == p[0] + p[1] + p[2]
    IN  CHOOSE q \in 0..sum : 3 * q <= sum /\ sum < 3 * (q + 1)

Intensity(img, r, c) ==
    IF img.isColor_ THEN AvgTrunc(img.color_[r][c]) ELSE img.gray_[r][c]

\* the axis-aligned neighbours of (r, c) that lie inside an h x w grid
NeighboursIn(h, w, r, c) ==
    {rc \in {<<r - 1, c>>, <<r + 1, c>>, <<r, c - 1>>, <<r, c + 1>>} :
        rc[1] \in 0..(h - 1) /\ rc[2] \in 0..(w - 1)}

RECURSIVE ContrastOver(_, _, _, _)
ContrastOver(img, r, c, nbrs) ==
    IF nbrs = {} THEN 0
    ELSE LET n == CHOOSE x \in nbrs : TRUE
         IN  Abs(Intensity(img, r, c) - Intensity(img, n[1], n[2]))
             + ContrastOver(img, r, c, nbrs \ {n})

Contrast(img, r, c) ==
    ContrastOver(img, r, c, NeighboursIn(img.height_, img.width_, r, c))

IsEnergyOf(energy, img) ==
    /\ DOMAIN energy = 0..(img.height_ - 1)
    /\ \A r \in 0..(img.height_ - 1) :
        /\ DOMAIN energy[r] = 0..(img.width_ - 1)
        /\ \A c \in 0..(img.width_ - 1) :
            /\ energy[r][c] = Contrast(img, r, c)
            /\ energy[r][c] >= 0

\* C5: the map computeEnergy returns has the grid's height and width, each
\* entry is the sum over the neighbours inside the grid of the absolute
\* intensity differences (intensity: the channel value, or the truncating
\* average of the three channels), so no entry is negative; the grid is
\* left as it was.
C5_EnergyMap ==
    pc = "rv_find" => (image_ = pre /\ IsEnergyOf(E, image_))

\* C5 witness: the energy of the 3x3 colour scenario grid, whose centre has
\* four neighbours (intensities 12 against 3) and whose corners have two
C5_Witness ==
    /\ pc = "rv_find"
    /\ image_ = LoadColor(3, 3, ScenarioColorGrid)
    /\ E[1][1] = 36 /\ E[0][0] = 4 /\ E[0][1] = 13

\* the first n entries of the endless repetition of the sequence body
IsRepetitionPrefix(t, body) ==
    \A i \in 1..Len(t) : t[i] = body[((i - 1) % Len(body)) + 1]

VerticalBody == <<"computeEnergy", "findVerticalSeam", "removeSeam">>

\* C6: on a grid of positive dimensions (no earlier call shrank one to
\* zero), removeVerticalSeams(n) with n below the width runs the sequence
\* compute energy, find seam, remove seam exactly n times in that order;
\* the energy map in hand is always that of the grid as it is now (as the
\* previous removal left it); on return the width is n less, the height is
\* the same, and with n = 0 the grid is the one the call started with.
C6_RemoveVerticalSeams ==
    (call.op = "removeVerticalSeams" /\ valid /\ call.n < img0.width_) =>
        /\ pc \in {"idle", "rv_loop", "rv_find", "rv_remove"}
        /\ IsRepetitionPrefix(trace, VerticalBody)
        /\ Len(trace) <= 3 * call.n
        /\ pc \in {"rv_find", "rv_remove"} => IsEnergyOf(E, image_)
        /\ pc = "rv_remove" => Len(trace) % 3 = 2
        /\ pc = "rv_loop" =>
            /\ Len(trace) = 3 * vk
            /\ image_.width_ = img0.width_ - vk
        /\ pc = "idle" =>
            /\ Len(trace) = 3 * call.n
            /\ image_.width_ = img0.width_ - call.n
            /\ image_.height_ = img0.height_
            /\ (call.n = 0 => image_ = img0)

\* C6 witness: removeVerticalSeams(2) has returned on a grid that was 2x3
\* and not uniform
C6_Witness ==
    /\ pc = "idle" /\ call = [op |-> "removeVerticalSeams", n |-> 2]
    /\ img0.height_ = 2 /\ img0.width_ = 3 /\ ~img0.isColor_
    /\ img0.gray_[0][0] # img0.gray_[0][1]
    /\ image_.width_ = 1
    /\ Len(trace) = 6

HorizontalBody ==
    <<"transpose", "computeEnergy", "findVerticalSeam", "removeSeam", "transpose">>

\* column c of the grid, top to bottom
Column(img, c) == [r \in 1..img.height_ |-> Rows(img)[r - 1][c]]

\* sequence a is sequence b with (Len(b) - Len(a)) elements left out
RECURSIVE IsSubSeq(_, _)
IsSubSeq(a, b) ==
    IF a = <<>> THEN TRUE
    ELSE IF b = <<>> THEN FALSE
    ELSE IF Head(a) = Head(b) /\ IsSubSeq(Tail(a), Tail(b)) THEN TRUE
    ELSE IsSubSeq(a, Tail(b))

\* C7: on a grid of positive dimensions (no earlier call shrank one to
\* zero), removeHorizontalSeams(m) with m below the height runs the sequence
\* transpose, removeVerticalSeams(1), transpose exactly m times; after each
\* iteration the grid is in its original orientation, one row lower (each
\* column is the original column with pixels left out) and as wide as
\* before; on return the height is m less, the width the same, and with
\* m = 0 the grid is the one the call started with.
C7_RemoveHorizontalSeams ==
    (call.op = "removeHorizontalSeams" /\ valid /\ call.n < img0.height_) =>
        /\ pc \in {"idle", "rh_loop", "rh_back", "rv_loop", "rv_find", "rv_remove"}
        /\ IsRepetitionPrefix(trace, HorizontalBody)
        /\ Len(trace) <= 5 * call.n
        /\ pc = "rh_loop" =>
            /\ Len(trace) = 5 * hk
            /\ image_.height_ = img0.height_ - hk
            /\ image_.width_ = img0.width_
            /\ HasShape(image_, img0.height_ - hk, img0.width_)
            /\ \A c \in 0..(img0.width_ - 1) :
                IsSubSeq(Column(image_, c), Column(img0, c))
        /\ pc = "idle" =>
            /\ Len(trace) = 5 * call.n
            /\ image_.height_ = img0.height_ - call.n
            /\ image_.width_ = img0.width_
            /\ (call.n = 0 => image_ = img0)

\* C7 witness: removeHorizontalSeams(2) has returned on a grid that was 3x2
\* and not uniform
C7_Witness ==
    /\ pc = "idle" /\ call = [op |-> "removeHorizontalSeams", n |-> 2]
    /\ img0.height_ = 3 /\ img0.width_ = 2 /\ img0.isColor_
    /\ img0.color_[0][0] # img0.color_[1][0]
    /\ image_.height_ = 1 /\ image_.width_ = 2
    /\ Len(trace) = 10

\* C8: as long as every call kept its count below the dimension it shrinks,
\* the pixel storage has height rows of width pixels each, width and height
\* are at least 1, and the program has not left defined behaviour.
C8_ShapeInvariant ==
    valid =>
        /\ pc \notin UBOutcomes
        /\ HasShape(image_, image_.height_, image_.width_)
        /\ image_.width_ >= 1
        /\ image_.height_ >= 1

\* C8 witness: in the second iteration of removeHorizontalSeams(2), between
\* the removal in the transposed grid and the transpose back
C8_Witness ==
    /\ valid /\ pc = "rv_loop" /\ ret = "rh_back"
    /\ call = [op |-> "removeHorizontalSeams", n |-> 2]
    /\ hk = 1 /\ vk = 1
    /\ image_.width_ = 1 /\ image_.height_ = 2

\* C10: one vertical seam removed from [[1,2,1],[2,9,2],[1,2,1]] leaves 3
\* rows of 2 columns, and the 9 is still in the middle row.
C10_Scenario ==
    (/\ pc = "idle"
     /\ call = [op |-> "removeVerticalSeams", n |-> 1]
     /\ img0 = LoadGray(3, 3, ScenarioGrid))
    =>
        /\ image_.height_ = 3
        /\ image_.width_ = 2
        /\ HasShape(image_, 3, 2)
        /\ \E c \in 0..1 : image_.gray_[1][c] = 9

\* C10 witness: the call has returned with the grid [[2,1],[9,2],[2,1]]
C10_Witness ==
    /\ pc = "idle"
    /\ call = [op |-> "removeVerticalSeams", n |-> 1]
    /\ img0 = LoadGray(3, 3, ScenarioGrid)
    /\ image_.gray_ = (0 :> ((0 :> 2) @@ (1 :> 1)))
                      @@ (1 :> ((0 :> 9) @@ (1 :> 2)))
                      @@ (2 :> ((0 :> 2) @@ (1 :> 1)))

----------------
(* Uniform grids *)

\* the values held by the pixels of the image
PixelValues(img) ==
    {Rows(img)[r][c] : r \in 0..(img.height_ - 1), c \in 0..(img.width_ - 1)}

\* every pixel holds the same value
IsUniform(img) == Cardinality(PixelValues(img)) = 1

\* C11: removeVerticalSeams(k) on a uniform grid of height >= 1 and width > k
\* never leaves defined behaviour; every seam it finds is column 0 in every
\* row (each tie among the all-zero energies goes the same way on every run);
\* after j iterations the grid has the original height, the original width
\* less j, and only the original common value in its pixels; on return j = k,
\* so the output is one grid fixed by the input alone.
C11_UniformGrid ==
    (/\ call.op = "removeVerticalSeams"
     /\ img0.height_ >= 1
     /\ call.n < img0.width_
     /\ IsUniform(img0))
    =>
        /\ pc \notin UBOutcomes
        /\ (pc = "rv_remove" => seam = Vec(img0.height_, 0))
        /\ (pc \in {"rv_loop", "idle"} =>
               /\ image_.height_ = img0.height_
               /\ image_.width_ = img0.width_ - vk
               /\ image_.isColor_ = img0.isColor_
               /\ HasShape(image_, img0.height_, img0.width_ - vk)
               /\ PixelValues(image_) = PixelValues(img0))
        /\ (pc = "idle" => vk = call.n)

\* C11 witness: removeVerticalSeams(2) has returned on a uniform colour grid
\* of 2 rows and 3 columns, leaving 2 rows of 1 column
C11_Witness ==
    /\ pc = "idle"
    /\ call = [op |-> "removeVerticalSeams", n |-> 2]
    /\ IsUniform(img0) /\ img0.isColor_
    /\ img0.height_ = 2 /\ img0.width_ = 3
    /\ image_.height_ = 2 /\ image_.width_ = 1
    /\ PixelValues(image_) = PixelValues(img0)

----------------
(* PGMImage and PPMImage, main.cpp.  An image object is                    *)
(* [class, width_, height_, pixels_].                                      *)

\* PGMImage::read / PPMImage::read of a well-formed file
ReadImage(class, h, w, px) ==
    [class |-> class, width_ |-> w, height_ |-> h, pixels_ |-> px]

\* make_unique<PGMImage>() / make_unique<PPMImage>(): width_{0}, height_{0}
NewImage(class) == ReadImage(class, 0, 0, Vec(0, 0))

\* mutant of PGMcomputeEnergy: the neighbours above and below are left out
PGMcomputeEnergyRowOnly(img) ==
    LET w == img.width_
        p == img.pixels_
    IN  [i \in 0..(img.height_ - 1) |-> [j \in 0..(w - 1) |->
            LET e3 == IF j > 0 THEN Abs(p[i][j] - p[i][j - 1]) ELSE 0
                e4 == IF j < w - 1 THEN e3 + Abs(p[i][j] - p[i][j + 1]) ELSE e3
            IN  e4]]

\* PGMImage::computeEnergy
PGMcomputeEnergy(img) ==
    LET h == img.height_
        w == img.width_
        p == img.pixels_
    IN  [i \in 0..(h - 1) |-> [j \in 0..(w - 1) |->
            LET e1 == IF i > 0 THEN Abs(p[i][j] - p[i - 1][j]) ELSE 0
                e2 == IF i < h - 1 THEN e1 + Abs(p[i][j] - p[i + 1][j]) ELSE e1
                e3 == IF j > 0 THEN e2 + Abs(p[i][j] - p[i][j - 1]) ELSE e2
                e4 == IF j < w - 1 THEN e3 + Abs(p[i][j] - p[i][j + 1]) ELSE e3
            IN  e4]]

\* PPMImage::computeChannelEnergy
computeChannelEnergy(img, channel) ==
    LET h == img.height_
        w == img.width_
        p == img.pixels_
    IN  [i \in 0..(h - 1) |-> [j \in 0..(w - 1) |->
            LET v  == p[i][j][channel]
                e1 == IF i > 0 THEN Abs(v - p[i - 1][j][channel]) ELSE 0
                e2 == IF i < h - 1 THEN e1 + Abs(v - p[i + 1][j][channel]) ELSE e1
                e3 == IF j > 0 THEN e2 + Abs(v - p[i][j - 1][channel]) ELSE e2
                e4 == IF j < w - 1 THEN e3 + Abs(v - p[i][j + 1][channel]) ELSE e3
            IN  e4]]

\* PPMImage::computeEnergy
PPMcomputeEnergy(img) ==
    LET rE == computeChannelEnergy(img, 0)
        gE == computeChannelEnergy(img, 1)
        bE == computeChannelEnergy(img, 2)
    IN  [i \in 0..(img.height_ - 1) |-> [j \in 0..(img.width_ - 1) |->
            rE[i][j] + gE[i][j] + bE[i][j]]]

\* image_->computeEnergy(), dispatched on the class
VirtualComputeEnergy(img) ==
    IF img.class = "pgm" THEN PGMcomputeEnergy(img) ELSE PPMcomputeEnergy(img)

\* PGMImage::removeVerticalSeam, PPMImage::removeVerticalSeam
removeVerticalSeam(img, s) ==
    [img EXCEPT !.pixels_ = EraseRows(img.pixels_, img.height_, s),
                !.width_ = img.width_ - 1]

\* every erase of removeVerticalSeam hits an element
CanRemoveVertical(img, s) ==
    \A i \in 0..(img.height_ - 1) :
        /\ i \in DOMAIN s
        /\ i \in DOMAIN img.pixels_
        /\ s[i] \in DOMAIN img.pixels_[i]

\* PGMImage::transpose, PPMImage::transpose (of a matrix)
TransposeMat(mat) ==
    LET h == Size(mat)
        w == Size(mat[0])
    IN  [j \in 0..(w - 1) |-> [i \in 0..(h - 1) |-> mat[i][j]]]

\* PGMImage::removeHorizontalSeam, PPMImage::removeHorizontalSeam
removeHorizontalSeam(img, s) ==
    LET trans  == TransposeMat(img.pixels_)
        erased == EraseRows(trans, img.width_, s)
    IN  [img EXCEPT !.pixels_ = TransposeMat(erased),
                    !.height_ = img.height_ - 1]

\* transpose reads mat[0] twice, and every erase must hit an element
CanRemoveHorizontal(img, s) ==
    /\ Size(img.pixels_) >= 1
    /\ Size(img.pixels_[0]) >= 1
    /\ \A i \in 0..(img.width_ - 1) :
        /\ i \in DOMAIN s
        /\ i \in DOMAIN TransposeMat(img.pixels_)
        /\ s[i] \in DOMAIN TransposeMat(img.pixels_)[i]

\* findMinVerticalSeam reads energy[0], and with more than one row M[i][0]
SearchMainDefined(energy) ==
    /\ Size(energy) >= 1
    /\ (Size(energy[0]) = 0 => Size(energy) = 1)

\* findMinHorizontalSeam reads energy[0], findMinVerticalSeam then trans[0]
SearchHorizontalDefined(energy) ==
    /\ Size(energy) >= 1
    /\ Size(energy[0]) >= 1

----------------------------------------------------------------------------
(* The program of main.cpp: seam_carving <input_file> <num_vertical>       *)
(* [<num_horizontal>].  Input files are well-formed P2 and P3 files of the *)
(* images within the bounds; the counts are 0..MaxCount.                   *)

Files ==
    UNION {
        {[magic |-> "P2", width |-> hw[2], height |-> hw[1], data |-> px] :
            px \in [0..(hw[1] - 1) -> [0..(hw[2] - 1) -> GrayVals]]}
        \cup
        {[magic |-> "P3", width |-> hw[2], height |-> hw[1], data |-> px] :
            px \in [0..(hw[1] - 1) -> [0..(hw[2] - 1) -> ColorVals]]}
        : hw \in Shapes}

\* variables the program of main.cpp does not have
Others ==
    <<mseam, vcount, vk, hcount, hk, ret, call, img0, pre, trace, valid, pgm_>>

CliInit ==
    /\ pc = "main"
    /\ image_ = NoImage
    /\ E = NoEnergy
    /\ seam = NoSeam
    /\ mseam = NoSeam
    /\ vcount = 0 /\ vk = 0 /\ hcount = 0 /\ hk = 0 /\ ret = "idle"
    /\ call = NoCall /\ img0 = NoImage /\ pre = NoImage
    /\ trace = <<>> /\ valid = TRUE
    /\ numV = 0 /\ numH = 0 /\ i_ = 0
    /\ pgm_ = NoPgm

\* main up to the try block: the argument count, the counts, the extension
MainArguments ==
    \E argcOk \in BOOLEAN, ext \in {"pgm", "PGM", "ppm", "PPM", "png", ""},
       nV \in 0..MaxCount, nH \in 0..MaxCount :
        /\ pc = "main"
        /\ IF ~argcOk \/ ext \notin {"pgm", "PGM", "ppm", "PPM"}
           THEN /\ pc' = "exit1"
                /\ UNCHANGED <<image_, numV, numH>>
           ELSE /\ pc' = "read"
                /\ image_' = NewImage(IF ext \in {"pgm", "PGM"} THEN "pgm" ELSE "ppm")
                /\ numV' = nV /\ numH' = nH
        /\ UNCHANGED <<E, seam, i_>>
        /\ UNCHANGED Others

\* img->read(input); SeamCarver carver(std::move(img)); up to the call of carve
MainRead ==
    /\ pc = "read"
    /\ \/ \* the file cannot be opened: read throws, main returns 1
          /\ pc' = "exit1"
          /\ image_' = image_
       \/ \E f \in Files :
            IF f.magic = (IF image_.class = "pgm" THEN "P2" ELSE "P3")
            THEN /\ image_' = ReadImage(image_.class, f.height, f.width, f.data)
                 /\ pc' = "carve"
            ELSE \* "Unsupported PGM format" / "Unsupported PPM format"
                 /\ image_' = image_
                 /\ pc' = "exit1"
    /\ UNCHANGED <<E, seam, numV, numH, i_, pgm_>>
    /\ UNCHANGED Others

\* carver.carve(numV, numH) is entered
CarveEnter ==
    /\ pc = "carve"
    /\ pc' = "carve_v"
    /\ i_' = 0
    /\ UNCHANGED <<image_, E, seam, numV, numH>>
    /\ UNCHANGED Others

\* first loop: auto energy = image_->computeEnergy();
CarveVEnergy ==
    /\ pc = "carve_v"
    /\ i_ < numV
    /\ E' = VirtualComputeEnergy(image_)
    /\ pc' = "carve_v_find"
    /\ UNCHANGED <<image_, seam, numV, numH, i_, pgm_>>
    /\ UNCHANGED Others

\* first loop: auto seam = findMinVerticalSeam(energy);
CarveVFind ==
    /\ pc = "carve_v_find"
    /\ \/ /\ Size(E) >= 1
          \* if the read outside M[i] happens its value is never used
          /\ seam' = findMinVerticalSeam(E)
          /\ pc' = "carve_v_remove"
       \/ /\ ~SearchMainDefined(E)
          /\ seam' = seam
          /\ pc' \in UBOutcomes
    /\ UNCHANGED <<image_, E, numV, numH, i_, pgm_>>
    /\ UNCHANGED Others

\* first loop: image_->removeVerticalSeam(seam); and the end of the body
CarveVRemove ==
    /\ pc = "carve_v_remove"
    /\ \/ /\ CanRemoveVertical(image_, seam)
          /\ image_' = removeVerticalSeam(image_, seam)
          /\ pc' = "carve_v"
       \/ /\ ~CanRemoveVertical(image_, seam)
          /\ image_' = image_
          /\ pc' \in UBOutcomes
    /\ i_' = i_ + 1
    /\ E' = NoEnergy /\ seam' = NoSeam
    /\ UNCHANGED <<numV, numH>>
    /\ UNCHANGED Others

\* the first loop ends
CarveVDone ==
    /\ pc = "carve_v"
    /\ ~(i_ < numV)
    /\ pc' = "carve_h"
    /\ i_' = 0
    /\ UNCHANGED <<image_, E, seam, numV, numH>>
    /\ UNCHANGED Others

\* second loop: auto energy = image_->computeEnergy();
CarveHEnergy ==
    /\ pc = "carve_h"
    /\ i_ < numH
    /\ E' = VirtualComputeEnergy(image_)
    /\ pc' = "carve_h_find"
    /\ UNCHANGED <<image_, seam, numV, numH, i_, pgm_>>
    /\ UNCHANGED Others

\* second loop: auto seam = findMinHorizontalSeam(energy);
CarveHFind ==
    /\ pc = "carve_h_find"
    /\ \/ /\ SearchHorizontalDefined(E)
          /\ seam' = findMinHorizontalSeam(E)
          /\ pc' = "carve_h_remove"
       \/ /\ ~SearchHorizontalDefined(E)
          /\ seam' = seam
          /\ pc' \in UBOutcomes
    /\ UNCHANGED <<image_, E, numV, numH, i_, pgm_>>
    /\ UNCHANGED Others

\* second loop: image_->removeHorizontalSeam(seam); and the end of the body
CarveHRemove ==
    /\ pc = "carve_h_remove"
    /\ \/ /\ CanRemoveHorizontal(image_, seam)
          /\ image_' = removeHorizontalSeam(image_, seam)
          /\ pc' = "carve_h"
       \/ /\ ~CanRemoveHorizontal(image_, seam)
          /\ image_' = image_
          /\ pc' \in UBOutcomes
    /\ i_' = i_ + 1
    /\ E' = NoEnergy /\ seam' = NoSeam
    /\ UNCHANGED <<numV, numH>>
    /\ UNCHANGED Others

\* the second loop ends, carve returns; carver.save(out); return 0
MainSave ==
    /\ pc = "carve_h"
    /\ ~(i_ < numH)
    /\ pc' = "exit0"
    /\ UNCHANGED <<image_, E, seam, numV, numH, i_, pgm_>>
    /\ UNCHANGED Others

CliNext ==
    \/ MainArguments
    \/ MainRead
    \/ CarveEnter
    \/ CarveVEnergy
    \/ CarveVFind
    \/ CarveVRemove
    \/ CarveVDone
    \/ CarveHEnergy
    \/ CarveHFind
    \/ CarveHRemove
    \/ MainSave

SpecCLI == CliInit /\ [][CliNext]_vars

\* C9: carve is never entered with numV >= width or numH >= height.
C9_CliRefuses ==
    pc = "carve" => (numV < image_.width_ /\ numH < image_.height_)

----------------
(* The image classes on their own: removeSeam (Image.cpp) and             *)
(* removeVerticalSeam (PGMImage, main.cpp) with any seam of in-range or    *)
(* one-past-the-end columns, and transpose (Image.cpp), applied in any     *)
(* order to a loaded image.  trace holds the latest removal or the latest  *)
(* run of at most two transposes, img0 the image before it.                *)

\* a PGMImage or PPMImage of main.cpp, as opposed to an Image of Image.cpp
IsMainImage(img) == "pixels_" \in DOMAIN img

PixelRows(img) == IF IsMainImage(img) THEN img.pixels_ ELSE Rows(img)

PgmImages ==
    {ReadImage("pgm", f.height, f.width, f.data) : f \in {g \in Files : g.magic = "P2"}}

ImageInit ==
    /\ pc = "image"
    /\ image_ \in Images \cup PgmImages
    /\ E = NoEnergy
    /\ seam = NoSeam
    /\ mseam = NoSeam
    /\ vcount = 0 /\ vk = 0 /\ hcount = 0 /\ hk = 0 /\ ret = "idle"
    /\ call = NoCall /\ img0 = image_ /\ pre = image_
    /\ trace = <<>> /\ valid = TRUE
    /\ numV = 0 /\ numH = 0 /\ i_ = 0
    /\ pgm_ = NoPgm

\* image.removeSeam(s), asked for while the grid still has a column (with no
\* row left the call would only count width_ down, without end)
ImageRemoveSeam ==
    \E s \in [0..(image_.height_ - 1) -> 0..image_.width_] :
        /\ pc = "image"
        /\ ~IsMainImage(image_)
        /\ image_.width_ >= 1
        /\ seam' = s
        /\ \/ /\ CanEraseAll(image_, s)
              /\ image_' = removeSeam(image_, s)
              /\ pc' = pc
           \/ /\ ~CanEraseAll(image_, s)
              /\ image_' = image_
              /\ pc' \in UBOutcomes
        /\ pre' = image_ /\ img0' = image_ /\ trace' = <<"removeSeam">>
        /\ UNCHANGED <<E, mseam, vcount, vk, hcount, hk, ret, call, valid, numV, numH, i_, pgm_>>

\* pgm.removeVerticalSeam(s), asked for while the grid still has a column
PgmRemoveVerticalSeam ==
    \E s \in [0..(image_.height_ - 1) -> 0..image_.width_] :
        /\ pc = "image"
        /\ IsMainImage(image_)
        /\ image_.width_ >= 1
        /\ seam' = s
        /\ \/ /\ CanRemoveVertical(image_, s)
              /\ image_' = removeVerticalSeam(image_, s)
              /\ pc' = pc
           \/ /\ ~CanRemoveVertical(image_, s)
              /\ image_' = image_
              /\ pc' \in UBOutcomes
        /\ pre' = image_ /\ img0' = image_ /\ trace' = <<"removeSeam">>
        /\ UNCHANGED <<E, mseam, vcount, vk, hcount, hk, ret, call, valid, numV, numH, i_, pgm_>>

\* image.transpose()
ImageTranspose ==
    /\ pc = "image"
    /\ ~IsMainImage(image_)
    /\ image_' = transpose(image_)
    /\ pre' = image_
    /\ IF trace = <<"transpose">>
       THEN trace' = <<"transpose", "transpose">> /\ img0' = img0
       ELSE trace' = <<"transpose">> /\ img0' = image_
    /\ UNCHANGED <<pc, E, seam, mseam, vcount, vk, hcount, hk, ret, call, valid, numV, numH, i_, pgm_>>

ImageNext == ImageRemoveSeam \/ PgmRemoveVerticalSeam \/ ImageTranspose

SpecImage == ImageInit /\ [][ImageNext]_vars

\* C3: removeSeam on a grid of width > 1, with an in-range seam, lowers the
\* width by one and keeps the height; in every row the pixels left of the
\* seam column keep their column, those right of it move one column left,
\* and every remaining pixel keeps its value.
C3_RemoveSeam ==
    (/\ pc = "image" /\ trace = <<"removeSeam">>
     /\ pre.width_ > 1
     /\ \A i \in 0..(pre.height_ - 1) : seam[i] \in 0..(pre.width_ - 1))
    =>
        /\ image_.width_ = pre.width_ - 1
        /\ image_.height_ = pre.height_
        /\ IsMainImage(image_) = IsMainImage(pre)
        /\ ~IsMainImage(pre) => image_.isColor_ = pre.isColor_
        /\ DOMAIN PixelRows(image_) = 0..(pre.height_ - 1)
        /\ \A i \in 0..(pre.height_ - 1) :
            /\ DOMAIN PixelRows(image_)[i] = 0..(pre.width_ - 2)
            /\ \A j \in 0..(pre.width_ - 1) :
                /\ j < seam[i] => PixelRows(image_)[i][j] = PixelRows(pre)[i][j]
                /\ j > seam[i] => PixelRows(image_)[i][j - 1] = PixelRows(pre)[i][j]

\* C3 witness: a seam that is not connected (columns 0 and 2) was removed
\* from a 2x3 colour image whose rows are not uniform
C3_Witness ==
    /\ pc = "image" /\ trace = <<"removeSeam">>
    /\ ~IsMainImage(pre)
    /\ pre.isColor_ /\ pre.height_ = 2 /\ pre.width_ = 3
    /\ seam = (0 :> 0) @@ (1 :> 2)
    /\ pre.color_[0][0] # pre.color_[0][1]
    /\ pre.color_[1][1] # pre.color_[1][2]
    /\ image_.width_ = 2

\* C4: transpose exchanges width and height and moves the pixel at (r, c)
\* to (c, r); two transposes in a row give back the grid they started from.
C4_TransposeInvolution ==
    pc = "image" =>
        /\ (trace # <<>> /\ trace[Len(trace)] = "transpose") =>
            /\ image_.width_ = pre.height_
            /\ image_.height_ = pre.width_
            /\ image_.isColor_ = pre.isColor_
            /\ HasShape(image_, pre.width_, pre.height_)
            /\ \A r \in 0..(pre.height_ - 1) : \A c \in 0..(pre.width_ - 1) :
                Rows(image_)[c][r] = Rows(pre)[r][c]
        /\ trace = <<"transpose", "transpose">> => image_ = img0

\* C4 witness: a 2x3 colour grid with unequal pixels, transposed twice
C4_Witness ==
    /\ pc = "image" /\ trace = <<"transpose", "transpose">>
    /\ ~IsMainImage(img0)
    /\ img0.isColor_ /\ img0.height_ = 2 /\ img0.width_ = 3
    /\ img0.color_[0][1] # img0.color_[1][0]
    /\ img0.color_[0][2] # img0.color_[1][1]
    /\ pre.height_ = 3 /\ pre.width_ = 2

------------------------------------------------------------

----------------------------------------------------------------------------
(* One horizontal seam, removed twice over: by removeHorizontalSeams(1) of  *)
(* SeamCarver.cpp from an Image, and by carve(0, 1) of main.cpp from a      *)
(* PGMImage that holds the same single-channel grid.                        *)

\* the PGMImage that holds the gray grid of an Image
PgmOf(img) == ReadImage("pgm", img.height_, img.width_, img.gray_)

HorizontalInit ==
    /\ pc = "pair"
    /\ image_ \in {g \in Images : ~g.isColor_}
    /\ pgm_ = PgmOf(image_)
    /\ E = NoEnergy
    /\ seam = NoSeam
    /\ mseam = NoSeam
    /\ vcount = 0 /\ vk = 0 /\ hcount = 0 /\ hk = 0 /\ ret = "idle"
    /\ call = NoCall /\ img0 = image_ /\ pre = image_
    /\ trace = <<>> /\ valid = TRUE
    /\ numV = 0 /\ numH = 0 /\ i_ = 0

\* every read and every erase of removeHorizontalSeams(1) is in range
CarverDefined(img) ==
    LET t == transpose(img)
        e == computeEnergy(t)
    IN  SearchDefined(e) /\ CanEraseAll(t, findVerticalSeam(e))

\* every read and every erase of carve(0, 1) is in range
PgmDefined(img) ==
    LET e == PGMcomputeEnergy(img)
    IN  SearchHorizontalDefined(e)
        /\ CanRemoveHorizontal(img, findMinHorizontalSeam(e))

\* removeHorizontalSeams(1): transpose; computeEnergy; findVerticalSeam;
\* removeSeam; transpose, on a grid on which all of it is defined (every
\* grid of positive dimensions).
CarverRemoveHorizontalSeams ==
    /\ pc = "pair"
    /\ hk = 0
    /\ CarverDefined(image_)
    /\ LET t  == transpose(image_)
           e  == computeEnergy(t)
           s  == findVerticalSeam(e)
       IN  /\ E' = e
           /\ seam' = s
           /\ image_' = transpose(removeSeam(t, s))
    /\ hcount' = 1 /\ hk' = 1
    /\ UNCHANGED <<pc, mseam, vcount, vk, ret, call, img0, pre, trace, valid,
                   numV, numH, i_, pgm_>>

\* carve(0, 1): computeEnergy; findMinHorizontalSeam; removeHorizontalSeam,
\* on a grid on which all of it is defined (every grid of positive dimensions).
PgmCarveHorizontal ==
    /\ pc = "pair"
    /\ i_ = 0
    /\ PgmDefined(pgm_)
    /\ LET e == PGMcomputeEnergy(pgm_)
           s == findMinHorizontalSeam(e)
       IN  /\ mseam' = s
           /\ pgm_' = removeHorizontalSeam(pgm_, s)
    /\ numH' = 1 /\ i_' = 1
    /\ UNCHANGED <<pc, image_, E, seam, vcount, vk, hcount, hk, ret,
                   call, img0, pre, trace, valid, numV>>

HorizontalNext == CarverRemoveHorizontalSeams \/ PgmCarveHorizontal

SpecHorizontal == HorizontalInit /\ [][HorizontalNext]_vars

\* C14: for every single-channel grid of height > 1 (and width >= 1) both
\* removals are defined; the energy map SeamCarver.cpp computes on the
\* transposed grid is the transpose of the energy map main.cpp computes on
\* the grid; the two seams are equal; and the two resulting grids are equal:
\* same width, same height (one less than before), same pixels.
C14_HorizontalAgree ==
    (pc = "pair" /\ img0.height_ > 1) =>
        /\ (hk = 0 => CarverDefined(image_))
        /\ (i_ = 0 => PgmDefined(pgm_))
        /\ (hk = 1 => E = TransposeMat(PGMcomputeEnergy(PgmOf(img0))))
        /\ (hk = 1 /\ i_ = 1) =>
               /\ mseam = seam
               /\ pgm_.width_ = image_.width_
               /\ pgm_.height_ = image_.height_
               /\ image_.height_ = img0.height_ - 1
               /\ image_.width_ = img0.width_
               /\ pgm_.pixels_ = image_.gray_

\* C14 witness: both removals are done on a grid of 2 rows and 3 columns
\* whose seam changes row on the way, and the one row left is the same in
\* both and holds pixels of both original rows
C14_Witness ==
    /\ pc = "pair" /\ hk = 1 /\ i_ = 1
    /\ img0.height_ = 2 /\ img0.width_ = 3
    /\ \E c \in 0..1 : seam[c] # seam[c + 1]
    /\ pgm_.pixels_ = image_.gray_
    /\ image_.gray_ # Vec(1, img0.gray_[0])
    /\ image_.gray_ # Vec(1, img0.gray_[1])

====
